---- MODULE Spec2Model ----
(***************************************************************************)
(* Model of django_snow/helpers/snow_change_order_handler.py:              *)
(* ChangeOrderHandler, the ServiceNow change order lifecycle client and    *)
(* its group name -> GUID cache.                                           *)
(*                                                                         *)
(* Python dicts are TLA+ functions over a finite set of string keys        *)
(* (`k in d` is  k \in DOMAIN d ;  {} is <<>>).  None is "" for strings    *)
(* and 0 for the closed_time timestamp.                                    *)
(***************************************************************************)
EXTENDS Integers, Sequences, FiniteSets, TLC

VARIABLES
    group_guid_dict,  \* ChangeOrderHandler.group_guid_dict (class attribute)
    groups,           \* remote sys_user_group table: name -> set of sys_ids
    co,               \* the ChangeOrder object the caller holds (in memory)
    db_row,           \* the row of that ChangeOrder as persisted by the ORM
    ndb,              \* number of rows ChangeOrder.objects.create inserted
    extra,            \* a payload dict the caller keeps a reference to
    call,             \* what the last call did and how it ended
    ever_cached,      \* history: the group names the cache has ever held
    threads           \* the calls of threads that share the cache: where each
                      \* is in get_snow_group_guid / clear_group_guid_cache

vars ==
    <<group_guid_dict, groups, co, db_row, ndb, extra, call, ever_cached, threads>>

-----------------------------------------------------------------------------
(* Bounds of the model. *)

MaxCreates == 1    \* rows the repository may hold
MaxTime == 2       \* timezone.now() returns a time in 1..MaxTime
MaxCallers == 2    \* threads that call get_snow_group_guid at the same time

-----------------------------------------------------------------------------
(* Value domains the inputs and the remote answers are drawn from. *)

Names == {"n1", "n2", "n3"}
Guids == {"g1", "g2"}
Texts == {<<"t1", "d1">>, <<"t2", "d2">>}    \* <<title, description>>
ErrTexts == {"e1", "e2"}
Tickets == {<<"s1", "CHG1">>, <<"s2", "CHG2">>}
Times == 1..MaxTime

TICKET_STATE_COMPLETE == "complete"
TICKET_STATE_COMPLETE_WITH_ERRORS == "complete_with_errors"
TicketStates == {"new", TICKET_STATE_COMPLETE, TICKET_STATE_COMPLETE_WITH_ERRORS}

\* settings.SNOW_ASSIGNMENT_GROUP and settings.SNOW_DEFAULT_CHANGE_TYPE
snow_assignment_group == "n1"
snow_default_cr_type == "standard"

\* d[k] = v on a dict
Put(d, k, v) == [x \in DOMAIN d \cup {k} |-> IF x = k THEN v ELSE d[x]]

-----------------------------------------------------------------------------
(* The records. *)

\* no ChangeOrder yet
NoOrder ==
    [sys_id |-> "", number |-> "", title |-> "", description |-> "",
     assignment_group_guid |-> "", state |-> "", closed_time |-> 0]

NoMessage == <<"", "", "">>

\* the remote change_request table was not asked
NoResp == [http |-> FALSE, text |-> "", body |-> <<>>]

\* The shape of `call`; every action fills in what it did.  For a direct call of
\* get_snow_group_guid, `matches` is what the remote table held under the name
\* and `known` whether the cache had ever held the name.  For create_change_order,
\* `title` and `description` are its arguments and `group_arg` is its
\* assignment_group argument as line 47 read it ("" when None or not read).
NoCall ==
    [op |-> "none", outcome |-> "returned", msg |-> NoMessage,
     name |-> "", lookups |-> 0, lookup_http |-> FALSE, guid |-> "",
     matches |-> {}, known |-> FALSE,
     title |-> "", description |-> "", group_arg |-> "",
     args |-> <<>>, sent |-> 0, request |-> <<>>, query |-> "", remote |-> NoResp,
     ret |-> <<>>, creates |-> 0, saves |-> 0]

-----------------------------------------------------------------------------
(* Group resolver: get_snow_group_guid and clear_group_guid_cache.         *)

\* one() that takes the first of several matches
one_first(matches) ==
    IF Cardinality(matches) = 0 THEN [exc |-> "NoResults", sys_id |-> ""]
    ELSE [exc |-> "", sys_id |-> CHOOSE g \in matches : TRUE]

\* pysnow Response.one(): the single match, else NoResults / MultipleResults
one(matches) ==
    IF Cardinality(matches) = 0 THEN [exc |-> "NoResults", sys_id |-> ""]
    ELSE IF Cardinality(matches) > 1 THEN [exc |-> "MultipleResults", sys_id |-> ""]
    ELSE [exc |-> "", sys_id |-> CHOOSE g \in matches : TRUE]

\* get_snow_group_guid that asks the remote table whatever the cache holds
get_snow_group_guid_refresh(cache, group_name, http_fails, matches) ==
    IF http_fails
    THEN [outcome |-> "HTTPError", guid |-> "", cache |-> cache, lookups |-> 1,
          lookup_http |-> TRUE]
    ELSE IF one(matches).exc # ""
    THEN [outcome |-> one(matches).exc, guid |-> "", cache |-> cache,
          lookups |-> 1, lookup_http |-> FALSE]
    ELSE [outcome |-> "returned", guid |-> one(matches).sys_id,
          cache |-> Put(cache, group_name, one(matches).sys_id),
          lookups |-> 1, lookup_http |-> FALSE]

\* get_snow_group_guid that returns what it looked up without storing it
get_snow_group_guid_no_store(cache, group_name, http_fails, matches) ==
    IF group_name \in DOMAIN cache
    THEN [outcome |-> "returned", guid |-> cache[group_name],
          cache |-> cache, lookups |-> 0, lookup_http |-> FALSE]
    ELSE [get_snow_group_guid_refresh(cache, group_name, http_fails, matches)
            EXCEPT !.cache = cache]

\* get_snow_group_guid that leaves an empty entry behind when the lookup fails
get_snow_group_guid_marks_failure(cache, group_name, http_fails, matches) ==
    IF group_name \in DOMAIN cache
    THEN [outcome |-> "returned", guid |-> cache[group_name],
          cache |-> cache, lookups |-> 0, lookup_http |-> FALSE]
    ELSE IF http_fails \/ one(matches).exc # ""
    THEN [outcome |-> IF http_fails THEN "HTTPError" ELSE one(matches).exc,
          guid |-> "", cache |-> Put(cache, group_name, ""), lookups |-> 1,
          lookup_http |-> http_fails]
    ELSE get_snow_group_guid_refresh(cache, group_name, http_fails, matches)

\* get_snow_group_guid(group_name) on cache `cache`; `http_fails` says whether
\* user_groups.get would raise HTTPError, `matches` is what the query matches.
\* Nothing is caught: whatever get()/one() raise reaches the caller.
get_snow_group_guid(cache, group_name, http_fails, matches) ==
    IF group_name \in DOMAIN cache
    THEN [outcome |-> "returned", guid |-> cache[group_name],
          cache |-> cache, lookups |-> 0, lookup_http |-> FALSE]
    ELSE IF http_fails
    THEN [outcome |-> "HTTPError", guid |-> "", cache |-> cache, lookups |-> 1,
          lookup_http |-> TRUE]
    ELSE LET result == one(matches)
         IN  IF result.exc # ""
             THEN [outcome |-> result.exc, guid |-> "", cache |-> cache,
                   lookups |-> 1, lookup_http |-> FALSE]
             ELSE LET stored == Put(cache, group_name, result.sys_id)
                  IN  [outcome |-> "returned", guid |-> stored[group_name],
                       cache |-> stored, lookups |-> 1, lookup_http |-> FALSE]

clear_group_guid_cache(cache) == <<>>

GetGuid ==
    \E group_name \in Names, http_fails \in BOOLEAN :
        \E r \in {get_snow_group_guid(group_guid_dict, group_name, http_fails,
                                      groups[group_name])} :
            /\ group_guid_dict' = r.cache
            /\ ever_cached' = ever_cached \cup DOMAIN r.cache
            /\ call' = [NoCall EXCEPT !.op = "get_guid", !.outcome = r.outcome,
                                      !.name = group_name, !.lookups = r.lookups,
                                      !.lookup_http = r.lookup_http,
                                      !.guid = r.guid,
                                      !.matches = groups[group_name],
                                      !.known = group_name \in ever_cached]
            /\ UNCHANGED <<groups, co, db_row, ndb, extra, threads>>

ClearCache ==
    /\ group_guid_dict' = clear_group_guid_cache(group_guid_dict)
    /\ call' = [NoCall EXCEPT !.op = "clear"]
    /\ UNCHANGED <<groups, co, db_row, ndb, extra, ever_cached, threads>>

\* The remote administrators change which groups carry a name.
RemoteGroupChange ==
    \E n \in Names, m \in SUBSET Guids :
        /\ m # groups[n]
        /\ groups' = [groups EXCEPT ![n] = m]
        /\ UNCHANGED <<group_guid_dict, co, db_row, ndb, extra, call, ever_cached,
                       threads>>

-----------------------------------------------------------------------------
(* Threads that share the handler's cache.  A thread runs the statements   *)
(* of get_snow_group_guid one at a time (each reads or writes the dict     *)
(* once); another thread's statement may run between any two of them.      *)
(* Thread 0 calls clear_group_guid_cache, threads 1..MaxCallers resolve.   *)

Callers == 1..MaxCallers
Clearer == 0

\* names the concurrent callers resolve: one group matches "n1", none "n3"
CallerNames == {"n1", "n3"}

\* a thread that has not called yet; pc is the line it is at
NoThread ==
    [pc |-> "idle", name |-> "", result |-> "", lookups |-> 0, outcome |-> "",
     ret |-> ""]

NoThreads == [t \in Callers \cup {Clearer} |-> NoThread]

\* the entry is not written
store_guid_dropped(cache, group_name, guid) == cache

\* line 148: self.group_guid_dict[group_name] = result['sys_id']
store_guid(cache, group_name, guid) == Put(cache, group_name, guid)

ThreadStep(t, rec) ==
    /\ threads' = [threads EXCEPT ![t] = rec]
    /\ UNCHANGED <<groups, co, db_row, ndb, extra, call, ever_cached>>

\* thread t calls get_snow_group_guid(group_name)
CallGetGuid(t) ==
    /\ threads[t].pc = "idle"
    /\ \E group_name \in CallerNames :
          ThreadStep(t, [NoThread EXCEPT !.pc = "143", !.name = group_name])
    /\ UNCHANGED group_guid_dict

\* line 143: if group_name not in self.group_guid_dict
CheckCached(t) ==
    /\ threads[t].pc = "143"
    /\ ThreadStep(t, [threads[t] EXCEPT
                        !.pc = IF threads[t].name \notin DOMAIN group_guid_dict
                               THEN "145" ELSE "150"])
    /\ UNCHANGED group_guid_dict

\* lines 145-147: the remote query and response.one()
LookUp(t) ==
    /\ threads[t].pc = "145"
    /\ \E http_fails \in BOOLEAN :
        \E r \in {one(groups[threads[t].name])} :
            ThreadStep(t, [threads[t] EXCEPT
                !.lookups = @ + 1,
                !.pc = IF http_fails \/ r.exc # "" THEN "done" ELSE "148",
                !.outcome = IF http_fails THEN "HTTPError" ELSE r.exc,
                !.result = IF http_fails THEN "" ELSE r.sys_id])
    /\ UNCHANGED group_guid_dict

\* line 148
StoreGuid(t) ==
    /\ threads[t].pc = "148"
    /\ group_guid_dict' =
            store_guid(group_guid_dict, threads[t].name, threads[t].result)
    /\ ThreadStep(t, [threads[t] EXCEPT !.pc = "150"])

\* line 150: return self.group_guid_dict[group_name]; the subscript raises
\* KeyError when the dict has no such key
ReturnGuid(t) ==
    /\ threads[t].pc = "150"
    /\ ThreadStep(t, [threads[t] EXCEPT
            !.pc = "done",
            !.outcome = IF threads[t].name \in DOMAIN group_guid_dict
                        THEN "returned" ELSE "KeyError",
            !.ret = IF threads[t].name \in DOMAIN group_guid_dict
                    THEN group_guid_dict[threads[t].name] ELSE ""])
    /\ UNCHANGED group_guid_dict

\* lines 152-156, by the clearing thread: self.group_guid_dict.clear()
ClearByThread ==
    /\ threads[Clearer].pc = "idle"
    /\ group_guid_dict' = clear_group_guid_cache(group_guid_dict)
    /\ ThreadStep(Clearer, [NoThread EXCEPT !.pc = "done", !.outcome = "returned"])

-----------------------------------------------------------------------------
(* What the remote change_request table answers to create() and update().  *)
(* http = TRUE: the call raises HTTPError whose response text is `text`.   *)
(* Otherwise `body` is the result: the record, or a legacy {'error': ...}. *)
(* body.assignment_group stands for result['assignment_group']['value'].   *)

HttpFailures == {[http |-> TRUE, text |-> t, body |-> <<>>] : t \in ErrTexts}

LegacyErrors == {[http |-> FALSE, text |-> "", body |-> [error |-> t]] : t \in ErrTexts}

Records ==
    {[http |-> FALSE, text |-> "",
      body |-> [sys_id |-> tk[1], number |-> tk[2], short_description |-> tx[1],
                description |-> tx[2], assignment_group |-> g, state |-> s]] :
        tk \in Tickets, tx \in Texts, g \in Guids, s \in TicketStates}

Responses == HttpFailures \cup LegacyErrors \cup Records

-----------------------------------------------------------------------------
(* Change order lifecycle client.                                          *)

\* objects.create with the title and the description taken from each other's key
objects_create_swapped(result) ==
    [sys_id |-> result.sys_id,
     number |-> result.number,
     title |-> result.description,
     description |-> result.short_description,
     assignment_group_guid |-> result.assignment_group,
     state |-> result.state,
     closed_time |-> 0]

\* ChangeOrder.objects.create(...) of lines 60-67: the new object, closed_time unset
objects_create(result) ==
    [sys_id |-> result.sys_id,
     number |-> result.number,
     title |-> result.short_description,
     description |-> result.description,
     assignment_group_guid |-> result.assignment_group,
     state |-> result.state,
     closed_time |-> 0]

\* lines 41-42 as setdefault: entries the payload already has are kept
with_title_description_setdefault(payload, title, description) ==
    [k \in DOMAIN payload \cup {"short_description", "description"} |->
        IF k \in DOMAIN payload THEN payload[k]
        ELSE IF k = "short_description" THEN title ELSE description]

\* lines 40-42: the explicit title and description go into the payload
with_title_description(payload, title, description) ==
    Put(Put(payload, "short_description", title), "description", description)

\* lines 44-45
with_type(payload) ==
    IF "type" \notin DOMAIN payload THEN Put(payload, "type", snow_default_cr_type)
    ELSE payload

\* the configured group whatever the argument
group_or_default_ignoring(assignment_group) == snow_assignment_group

\* assignment_group or self.snow_assignment_group
group_or_default(assignment_group) ==
    IF assignment_group = "" THEN snow_assignment_group ELSE assignment_group

\* a message that leaves the remote's text out
create_http_message_fixed(text) == <<"Could not create change order", "", ".">>

\* Message of the ChangeOrderException raised on HTTPError by create (line 53)
create_http_message(text) == <<"Could not create change order due to ", text, ".">>

\* ... and on a legacy error result (line 58)
create_legacy_message(text) == <<"Could not create change order due to ", text, "">>

\* lines 116 and 121
update_message(text) == <<"Could not update change order due to ", text, "">>

\* lines 49-69 of create_change_order: the request `payload` is sent, `resp` is
\* the remote's answer; `looked` is what the group lookup before it did.
send_create(payload, looked, resp) ==
    IF resp.http
    THEN [looked EXCEPT !.outcome = "ChangeOrderException",
                        !.msg = create_http_message(resp.text),
                        !.payload = payload, !.sent = 1, !.request = payload,
                        !.remote = resp]
    ELSE IF "error" \in DOMAIN resp.body
    THEN [looked EXCEPT !.outcome = "ChangeOrderException",
                        !.msg = create_legacy_message(resp.body.error),
                        !.payload = payload, !.sent = 1, !.request = payload,
                        !.remote = resp]
    ELSE [looked EXCEPT !.order = objects_create(resp.body),
                        !.payload = payload, !.sent = 1, !.request = payload,
                        !.remote = resp, !.creates = 1]

\* what create_change_order has done when nothing was looked up or sent yet
NotSent(payload, cache) ==
    [outcome |-> "returned", msg |-> NoMessage, order |-> NoOrder,
     payload |-> payload, cache |-> cache, lookups |-> 0, lookup_http |-> FALSE,
     name |-> "", guid |-> "",
     sent |-> 0, request |-> <<>>, remote |-> NoResp, creates |-> 0]

\* the request is sent although the lookup failed
resolve_then_send_anyway(payload, group_name, g, resp) ==
    send_create(Put(payload, "assignment_group", g.guid),
                [NotSent(payload, g.cache) EXCEPT !.lookups = g.lookups,
                                                  !.lookup_http = g.lookup_http,
                                                  !.name = group_name,
                                                  !.guid = g.guid],
                resp)

\* lines 46-47, then the rest: `g` is what get_snow_group_guid(group_name) did.
\* An exception of the lookup leaves create_change_order at line 47.
resolve_then_send(payload, group_name, g, resp) ==
    IF g.outcome # "returned"
    THEN [NotSent(payload, g.cache) EXCEPT !.outcome = g.outcome,
                                           !.lookups = g.lookups,
                                           !.lookup_http = g.lookup_http,
                                           !.name = group_name]
    ELSE send_create(Put(payload, "assignment_group", g.guid),
                     [NotSent(payload, g.cache) EXCEPT !.lookups = g.lookups,
                                                       !.name = group_name,
                                                       !.guid = g.guid],
                     resp)

\* lines 44-69, on the payload that holds the title and the description
create_with(payload, assignment_group, cache, http_fails, matches, resp) ==
    IF "assignment_group" \notin DOMAIN payload
    THEN resolve_then_send(payload, group_or_default(assignment_group),
                           get_snow_group_guid(cache,
                                               group_or_default(assignment_group),
                                               http_fails, matches),
                           resp)
    ELSE send_create(payload, NotSent(payload, cache), resp)

\* create_change_order(title, description, assignment_group, payload).
\* `passed` is the caller's dict (<<>> for None or {}: `payload or {}` then makes
\* a new dict, so only a non-empty dict of the caller is written to), `resp` the
\* remote's answer to create(); http_fails/matches are the group lookup's, if one
\* is made.
\* Gives how the call ended, the new object (`order`), the dict as the call left
\* it (`payload`: the caller's own dict when it passed a non-empty one), the
\* cache, and what was sent.
create_change_order(title, description, assignment_group, passed, cache, http_fails, matches, resp) ==
    create_with(with_type(with_title_description(passed, title, description)),
                assignment_group, cache, http_fails, matches, resp)

\* the local fields taken from the remote result, the assignment group forgotten
apply_result_keeps_group(change_order, result) ==
    [change_order EXCEPT !.state = result.state,
                         !.title = result.short_description,
                         !.description = result.description]

\* the local fields taken from the remote result, sys_id and number too
apply_result_with_ids(change_order, result) ==
    [change_order EXCEPT !.state = result.state,
                         !.title = result.short_description,
                         !.description = result.description,
                         !.assignment_group_guid = result.assignment_group,
                         !.sys_id = result.sys_id,
                         !.number = result.number]

\* the local fields taken from the remote result, closed_time following the
\* resulting state
apply_result_tracks_closed(change_order, result) ==
    [change_order EXCEPT !.state = result.state,
                         !.title = result.short_description,
                         !.description = result.description,
                         !.assignment_group_guid = result.assignment_group,
                         !.closed_time =
                             IF result.state \in {TICKET_STATE_COMPLETE,
                                                  TICKET_STATE_COMPLETE_WITH_ERRORS}
                             THEN IF @ = 0 THEN 1 ELSE @
                             ELSE 0]

\* lines 123-126: the local fields taken from the remote result
apply_result(change_order, result) ==
    [change_order EXCEPT !.state = result.state,
                         !.title = result.short_description,
                         !.description = result.description,
                         !.assignment_group_guid = result.assignment_group]

\* change_order.save(): every field of the object is written to its row
save(change_order) == change_order

\* the fields of `payload` written to the object
requested(change_order, payload) ==
    [change_order EXCEPT
        !.title = IF "title" \in DOMAIN payload THEN payload.title ELSE @,
        !.description = IF "description" \in DOMAIN payload
                        THEN payload.description ELSE @,
        !.state = IF "state" \in DOMAIN payload THEN payload.state ELSE @]

\* update_change_order that writes the requested fields to the object before it
\* asks the remote system
update_change_order_optimistic(change_order, row, payload, resp) ==
    IF resp.http \/ "error" \in DOMAIN resp.body
    THEN [outcome |-> "ChangeOrderException",
          msg |-> update_message(IF resp.http THEN resp.text ELSE resp.body.error),
          order |-> requested(change_order, payload), row |-> row,
          sent |-> 1, request |-> payload, query |-> change_order.sys_id,
          remote |-> resp, ret |-> <<>>, saves |-> 0]
    ELSE [outcome |-> "returned", msg |-> NoMessage,
          order |-> apply_result(change_order, resp.body),
          row |-> save(apply_result(change_order, resp.body)),
          sent |-> 1, request |-> payload, query |-> change_order.sys_id,
          remote |-> resp, ret |-> resp.body, saves |-> 1]

\* update_change_order(change_order, payload): `row` is the persisted row,
\* `resp` the remote's answer to update().  Gives the object and the row after
\* the call, how it ended and what it returned.
update_change_order(change_order, row, payload, resp) ==
    LET base == [outcome |-> "returned", msg |-> NoMessage,
                 order |-> change_order, row |-> row,
                 sent |-> 1, request |-> payload, query |-> change_order.sys_id,
                 remote |-> resp, ret |-> <<>>, saves |-> 0]
    IN  IF resp.http
        THEN [base EXCEPT !.outcome = "ChangeOrderException",
                          !.msg = update_message(resp.text)]
        ELSE IF "error" \in DOMAIN resp.body
        THEN [base EXCEPT !.outcome = "ChangeOrderException",
                          !.msg = update_message(resp.body.error)]
        ELSE LET updated == apply_result(change_order, resp.body)
             IN  [base EXCEPT !.order = updated, !.row = save(updated),
                              !.ret = resp.body, !.saves = 1]

\* the payload of close_change_order with the other terminal state
close_payload_with_errors == [state |-> TICKET_STATE_COMPLETE_WITH_ERRORS]

\* line 74
close_payload == [state |-> TICKET_STATE_COMPLETE]

\* line 90 as payload.setdefault('state', ...): the caller's state wins
close_with_error_payload_setdefault(payload) ==
    IF "state" \in DOMAIN payload THEN payload
    ELSE Put(payload, "state", TICKET_STATE_COMPLETE_WITH_ERRORS)

\* line 90
close_with_error_payload(payload) ==
    Put(payload, "state", TICKET_STATE_COMPLETE_WITH_ERRORS)

\* closed_time is not stamped
stamp_closed_never(change_order, now) == change_order

\* lines 75 and 91: change_order.closed_time = timezone.now()
stamp_closed(change_order, now) == [change_order EXCEPT !.closed_time = now]

\* close_change_order(change_order); returns None, so `ret` is dropped
close_change_order(change_order, row, now, resp) ==
    LET r == update_change_order(stamp_closed(change_order, now), row,
                                 close_payload, resp)
    IN  [r EXCEPT !.ret = <<>>]

\* close_change_order_with_error(change_order, payload); returns None
close_change_order_with_error(change_order, row, payload, now, resp) ==
    LET r == update_change_order(stamp_closed(change_order, now), row,
                                 close_with_error_payload(payload), resp)
    IN  [r EXCEPT !.ret = <<>>]

-----------------------------------------------------------------------------
(* Inputs of the calls. *)

\* payload dicts callers pass to create_change_order
CreatePayloads ==
    {<<>>, [type |-> "emergency"], [assignment_group |-> "g2"],
     [short_description |-> "t2", description |-> "d2"]}

\* the assignment_group argument of create_change_order ("" is None)
GroupArgs == {"", "n2", "n3"}

\* the dicts a caller keeps and passes to one create_change_order after another:
\* not empty, and without an assignment_group of their own
KeptPayloads ==
    {p \in CreatePayloads : p # <<>> /\ "assignment_group" \notin DOMAIN p}

\* payload dicts callers pass to close_change_order_with_error
CloseWithErrorPayloads ==
    {<<>>, [state |-> "new"], [title |-> "t1", description |-> "d2"],
     [title |-> "t1", description |-> "d2", state |-> TICKET_STATE_COMPLETE]}

\* payload dicts callers pass to update_change_order
UpdatePayloads ==
    {<<>>, [title |-> "t1", description |-> "d2"]}
    \cup {[state |-> s] : s \in {"new", TICKET_STATE_COMPLETE}}
    \cup {[title |-> "t1", description |-> "d2", state |-> s] :
                s \in {"new", TICKET_STATE_COMPLETE}}

-----------------------------------------------------------------------------
(* The calls. *)

\* A call of create_change_order.  `kept`: the caller passes the dict it keeps
\* in `extra` (and sees what the call wrote into it) instead of a new one.
Create(kept) ==
    \E text \in Texts, assignment_group \in GroupArgs, fresh \in CreatePayloads,
       http_fails \in BOOLEAN :
      \E passed \in {IF kept THEN extra ELSE fresh} :
        \* the lookup's failure is a choice only where a lookup is made
        /\ http_fails =>
              /\ "assignment_group" \notin DOMAIN passed
              /\ group_or_default(assignment_group) \notin DOMAIN group_guid_dict
        \* the repository holds at most MaxCreates rows
        /\ \E resp \in IF ndb < MaxCreates THEN Responses
                                            ELSE HttpFailures \cup LegacyErrors :
            \E r \in {create_change_order(text[1], text[2], assignment_group,
                                          passed, group_guid_dict, http_fails,
                                          groups[group_or_default(assignment_group)],
                                          resp)} :
                /\ group_guid_dict' = r.cache
                /\ co' = IF r.creates = 1 THEN r.order ELSE co
                /\ db_row' = IF r.creates = 1 THEN r.order ELSE db_row
                /\ ndb' = ndb + r.creates
                /\ extra' = IF kept /\ passed # <<>> THEN r.payload ELSE extra
                /\ ever_cached' = ever_cached \cup DOMAIN r.cache
                /\ call' = [NoCall EXCEPT !.op = "create", !.outcome = r.outcome,
                                          !.msg = r.msg, !.name = r.name,
                                          !.lookups = r.lookups,
                                          !.lookup_http = r.lookup_http,
                                          !.guid = r.guid,
                                          !.title = text[1],
                                          !.description = text[2],
                                          !.group_arg = IF kept \/ r.name # ""
                                                        THEN assignment_group
                                                        ELSE "",
                                          !.args = passed,
                                          !.sent = r.sent, !.request = r.request,
                                          !.remote = r.remote,
                                          !.creates = r.creates]
                /\ UNCHANGED <<groups, threads>>

\* `args` is the payload dict the caller passed (<<>> for close_change_order)
LifecycleStep(op, args, r) ==
    /\ co' = r.order
    /\ db_row' = r.row
    /\ call' = [NoCall EXCEPT !.op = op, !.outcome = r.outcome, !.msg = r.msg,
                              !.args = args,
                              !.sent = r.sent, !.request = r.request,
                              !.query = r.query, !.remote = r.remote,
                              !.ret = r.ret, !.saves = r.saves]
    /\ UNCHANGED <<group_guid_dict, groups, ndb, extra, ever_cached, threads>>

Update ==
    /\ co # NoOrder
    /\ \E payload \in UpdatePayloads, resp \in Responses :
        \E r \in {update_change_order(co, db_row, payload, resp)} :
            LifecycleStep("update", payload, r)

Close ==
    /\ co # NoOrder
    /\ \E now \in Times, resp \in Responses :
        \E r \in {close_change_order(co, db_row, now, resp)} :
            LifecycleStep("close", <<>>, r)

CloseWithError ==
    /\ co # NoOrder
    /\ \E payload \in CloseWithErrorPayloads, now \in Times, resp \in Responses :
        \E r \in {close_change_order_with_error(co, db_row, payload, now, resp)} :
            LifecycleStep("close_with_error", payload, r)

-----------------------------------------------------------------------------

Init ==
    /\ group_guid_dict = <<>>
    /\ groups = [n \in Names |->
                    IF n = "n1" THEN {"g1"} ELSE IF n = "n2" THEN {"g2"} ELSE {}]
    /\ co = NoOrder
    /\ db_row = NoOrder
    /\ ndb = 0
    /\ extra = <<>>
    /\ call = NoCall
    /\ ever_cached = {}
    /\ threads = NoThreads

\* The group resolver against a remote table that changes.
NextResolver == GetGuid \/ ClearCache \/ RemoteGroupChange

SpecResolver == Init /\ [][NextResolver]_vars

\* Creation of change orders, with the group lookups it makes.
NextCreate == Create(FALSE)

SpecCreate == Init /\ [][NextCreate]_vars

\* Threads that resolve groups and clear the cache at the same time, the
\* remote table staying as it is.
NextThreads ==
    \/ \E t \in Callers : CallGetGuid(t)
    \/ \E t \in Callers : CheckCached(t)
    \/ \E t \in Callers : LookUp(t)
    \/ \E t \in Callers : StoreGuid(t)
    \/ \E t \in Callers : ReturnGuid(t)
    \/ ClearByThread

SpecThreads == Init /\ [][NextThreads]_vars

\* A caller that passes the same dict to every create_change_order.
InitKept ==
    /\ group_guid_dict = <<>>
    /\ groups = [n \in Names |->
                    IF n = "n1" THEN {"g1"} ELSE IF n = "n2" THEN {"g2"} ELSE {}]
    /\ co = NoOrder
    /\ db_row = NoOrder
    /\ ndb = 0
    /\ extra \in KeptPayloads
    /\ call = NoCall
    /\ ever_cached = {}
    /\ threads = NoThreads

NextKept == Create(TRUE)

SpecKept == InitKept /\ [][NextKept]_vars

\* The life of a change order once create_change_order has returned it.
InitCreated ==
    /\ group_guid_dict = <<>>
    /\ groups = [n \in Names |->
                    IF n = "n1" THEN {"g1"} ELSE IF n = "n2" THEN {"g2"} ELSE {}]
    /\ \E r \in Records : co = objects_create(r.body)
    /\ db_row = co
    /\ ndb = 1
    /\ extra = <<>>
    /\ call = NoCall
    /\ ever_cached = {}
    /\ threads = NoThreads

Next == Update \/ Close \/ CloseWithError

Spec == InitCreated /\ [][Next]_vars

-----------------------------------------------------------------------------
(* Properties of the lifecycle client and the group resolver.              *)

\* the remote answered a create/update with an HTTP error or a legacy error body
RemoteFailed(resp) == resp.http \/ "error" \in DOMAIN resp.body

\* the text the remote supplied with its failure
RemoteText(resp) == IF resp.http THEN resp.text ELSE resp.body.error

\* the object's title, description, assignment group and state are the result's
MatchesResult(order, result) ==
    /\ order.title = result.short_description
    /\ order.description = result.description
    /\ order.assignment_group_guid = result.assignment_group
    /\ order.state = result.state

\* C1: a failed update_change_order (HTTP error or legacy error body) ends with
\* ChangeOrderException, leaves the record's title, description, assignment
\* group and state as they were, and does not save the record.
C1_FailedUpdateLeavesRecord ==
    [][(call'.op = "update" /\ RemoteFailed(call'.remote)) =>
          /\ call'.outcome = "ChangeOrderException"
          /\ co'.title = co.title
          /\ co'.description = co.description
          /\ co'.assignment_group_guid = co.assignment_group_guid
          /\ co'.state = co.state
          /\ call'.saves = 0
          /\ db_row' = db_row]_vars

\* A failed update that asked for another state than the record has.
C1_Witness ==
    /\ call.op = "update"
    /\ RemoteFailed(call.remote)
    /\ call.outcome = "ChangeOrderException"
    /\ "state" \in DOMAIN call.request
    /\ call.request.state # co.state
    /\ "title" \in DOMAIN call.request
    /\ call.request.title # co.title

\* C2: a failed close_change_order / close_change_order_with_error leaves every
\* field of the record, closed_time included, as it was before the call.
C2_FailedCloseLeavesRecord ==
    [][(call'.op \in {"close", "close_with_error"} /\ RemoteFailed(call'.remote))
          => co' = co]_vars

\* C3: a create_change_order whose remote create fails (HTTP error or legacy
\* error body) ends with ChangeOrderException carrying the remote's text, and
\* ChangeOrder.objects.create is not called: the local records are unchanged.
C3_FailedCreateCreatesNothing ==
    [][(call'.op = "create" /\ call'.sent = 1 /\ RemoteFailed(call'.remote)) =>
          /\ call'.outcome = "ChangeOrderException"
          /\ call'.msg[2] = RemoteText(call'.remote)
          /\ call'.creates = 0
          /\ ndb' = ndb
          /\ db_row' = db_row
          /\ co' = co]_vars

\* A create that failed on an HTTP error after an earlier one had succeeded.
C3_Witness ==
    /\ call.op = "create"
    /\ call.sent = 1
    /\ call.remote.http
    /\ call.outcome = "ChangeOrderException"
    /\ call.msg[2] = "e2"
    /\ ndb = 1

\* C4: after a successful create_change_order the returned ChangeOrder's sys_id,
\* number, title, description, assignment group and state are those of the
\* remote response, and objects.create was called once, with those values.
C4_CreatedFromResponse ==
    (call.op = "create" /\ call.outcome = "returned") =>
        /\ call.sent = 1
        /\ co.sys_id = call.remote.body.sys_id
        /\ co.number = call.remote.body.number
        /\ MatchesResult(co, call.remote.body)
        /\ call.creates = 1
        /\ db_row = co

\* A successful create whose response differs from the request in title,
\* description and assignment group.
C4_Witness ==
    /\ call.op = "create"
    /\ call.outcome = "returned"
    /\ call.request.short_description # call.remote.body.short_description
    /\ call.request.description # call.remote.body.description
    /\ call.request.assignment_group # call.remote.body.assignment_group
    /\ co.title = call.remote.body.short_description

\* C5: after a successful update_change_order the record's title, description,
\* assignment group and state are those of the remote response whatever the
\* payload asked for, the record is saved, and the raw result is returned.
C5_UpdatedFromResponse ==
    (call.op = "update" /\ call.outcome = "returned") =>
        /\ MatchesResult(co, call.remote.body)
        /\ call.saves = 1
        /\ db_row = co
        /\ call.ret = call.remote.body

\* A successful update where the remote put another state than the one asked for.
C5_Witness ==
    /\ call.op = "update"
    /\ call.outcome = "returned"
    /\ "state" \in DOMAIN call.request
    /\ call.request.state # call.remote.body.state
    /\ co.state = call.remote.body.state

\* C6, as claimed: close_change_order always sets the change order's state to
\* COMPLETE and its closed_time to a non-null time.
C6_CloseSetsComplete ==
    (call.op = "close" /\ call.outcome = "returned") =>
        /\ co.state = TICKET_STATE_COMPLETE
        /\ co.closed_time # 0

\* C6, amended: close_change_order always asks the remote system for state
\* COMPLETE and stamps a non-null closed_time, whatever the prior state; when
\* the call succeeds the record's state is the one of the remote response.
C6_CloseRequestsComplete ==
    call.op = "close" =>
        /\ call.sent = 1
        /\ call.request = [state |-> TICKET_STATE_COMPLETE]
        /\ co.closed_time # 0
        /\ call.outcome = "returned" =>
              /\ co.state = call.remote.body.state
              /\ db_row = co

\* A successful close after which the record is not COMPLETE.
C6_Witness ==
    /\ call.op = "close"
    /\ call.outcome = "returned"
    /\ co.state = "new"
    /\ co.closed_time # 0

\* C7: the update request of close_change_order_with_error always carries
\* state COMPLETE_WITH_ERRORS, also when the caller's payload holds another
\* state, together with the title and description of the caller's payload.
C7_CloseWithErrorRequest ==
    call.op = "close_with_error" =>
        /\ call.sent = 1
        /\ DOMAIN call.request = DOMAIN call.args \cup {"state"}
        /\ call.request.state = TICKET_STATE_COMPLETE_WITH_ERRORS
        /\ \A k \in DOMAIN call.args \ {"state"} : call.request[k] = call.args[k]

\* A close with error whose payload held another state, a title and a description.
C7_Witness ==
    /\ call.op = "close_with_error"
    /\ "state" \in DOMAIN call.args
    /\ call.args.state # TICKET_STATE_COMPLETE_WITH_ERRORS
    /\ "title" \in DOMAIN call.args
    /\ call.request.title = call.args.title
    /\ call.request.description = call.args.description
    /\ call.request.state = TICKET_STATE_COMPLETE_WITH_ERRORS

\* The error kind of an exception that reaches the caller: pysnow's NoResults
\* and MultipleResults are the lookup's errors, requests' HTTPError the transport's.
ErrorKind(exc) ==
    IF exc \in {"NoResults", "MultipleResults"} THEN "LookupError"
    ELSE IF exc = "HTTPError" THEN "TransportError"
    ELSE exc

\* the step is a call of get_snow_group_guid / of clear_group_guid_cache
ResolveStep == call'.op = "get_guid" /\ groups' = groups
ClearStep == call'.op = "clear" /\ groups' = groups

\* C8: for a name the cache holds, get_snow_group_guid asks the remote system
\* nothing and returns the cached identifier; an entry stays as it is until
\* clear_group_guid_cache, whatever the remote table becomes.
C8_CachedNameNotLookedUp ==
    [][/\ (ResolveStep /\ call'.name \in DOMAIN group_guid_dict) =>
              /\ call'.lookups = 0
              /\ call'.outcome = "returned"
              /\ call'.guid = group_guid_dict[call'.name]
              /\ group_guid_dict' = group_guid_dict
       /\ \/ ClearStep
          \/ \A n \in DOMAIN group_guid_dict :
                /\ n \in DOMAIN group_guid_dict'
                /\ group_guid_dict'[n] = group_guid_dict[n]]_vars

\* A cache hit that returned an identifier the remote table no longer gives.
C8_Witness ==
    /\ call.op = "get_guid"
    /\ call.lookups = 0
    /\ call.outcome = "returned"
    /\ call.matches = {"g2"}
    /\ call.guid = "g1"

\* C9: for a name the cache does not hold, get_snow_group_guid asks the remote
\* system exactly once; when that succeeds it stores the identifier under that
\* name and returns it.  clear_group_guid_cache leaves no name in the cache, so
\* the next resolution of any name asks again.
C9_AbsentNameLookedUpOnce ==
    [][/\ (ResolveStep /\ call'.name \notin DOMAIN group_guid_dict) =>
              /\ call'.lookups = 1
              /\ call'.outcome = "returned" =>
                    /\ call'.matches = {call'.guid}
                    /\ group_guid_dict' =
                          Put(group_guid_dict, call'.name, call'.guid)
       /\ ClearStep => group_guid_dict' = <<>>]_vars

\* A name that had been cached and cleared is looked up again and stored, next
\* to another entry.
C9_Witness ==
    /\ call.op = "get_guid"
    /\ call.known
    /\ call.lookups = 1
    /\ call.outcome = "returned"
    /\ call.name \in DOMAIN group_guid_dict
    /\ group_guid_dict[call.name] = call.guid
    /\ Cardinality(DOMAIN group_guid_dict) = 2

C12_ExplicitTitleDescriptionSent ==
    (call.op = "create" /\ call.sent = 1) =>
        /\ call.request.short_description = call.title
        /\ call.request.description = call.description

\* A create whose payload dict held another title and another description.
C12_Witness ==
    /\ call.op = "create"
    /\ call.sent = 1
    /\ "short_description" \in DOMAIN call.args
    /\ call.args.short_description # call.title
    /\ call.args.description # call.description
    /\ call.request.short_description = call.title

\* C13: in the request of create_change_order the type is the payload dict's
\* if it has one, else the configured default; the assignment group is the
\* payload dict's if it has one (and no group is resolved), else the identifier
\* resolved for the assignment_group argument, or for the configured group name
\* when the argument is omitted.
C13_TypeAndGroupOfRequest ==
    (call.op = "create" /\ call.sent = 1) =>
        /\ call.request.type = IF "type" \in DOMAIN call.args
                               THEN call.args.type ELSE snow_default_cr_type
        /\ IF "assignment_group" \in DOMAIN call.args
           THEN /\ call.request.assignment_group = call.args.assignment_group
                /\ call.name = ""
                /\ call.lookups = 0
           ELSE /\ call.name = IF call.group_arg = "" THEN snow_assignment_group
                                                      ELSE call.group_arg
                /\ call.request.assignment_group = call.guid
                /\ groups[call.name] = {call.guid}

\* A create with a named group, looked up remotely, and the default type.
C13_Witness ==
    /\ call.op = "create"
    /\ call.sent = 1
    /\ call.group_arg = "n2"
    /\ call.lookups = 1
    /\ call.request.assignment_group = "g2"
    /\ call.request.type = snow_default_cr_type

\* C20: when create_change_order has to resolve the group and the resolution
\* fails, the call ends with the lookup's error, no create request has been
\* sent and no local record is created.
C20_FailedLookupSendsNothing ==
    (/\ call.op = "create"
     /\ call.lookups = 1
     /\ (call.lookup_http \/ Cardinality(groups[call.name]) # 1)) =>
        /\ call.outcome \in {"HTTPError", "NoResults", "MultipleResults"}
        /\ call.sent = 0
        /\ call.request = <<>>
        /\ call.creates = 0

\* A create for a group the remote table does not have, after an earlier create
\* succeeded.
C20_Witness ==
    /\ call.op = "create"
    /\ call.group_arg = "n3"
    /\ call.outcome = "NoResults"
    /\ call.sent = 0
    /\ ndb = 1

\* the states the client itself drives a change order to
TerminalStates == {TICKET_STATE_COMPLETE, TICKET_STATE_COMPLETE_WITH_ERRORS}

CloseOps == {"close", "close_with_error"}

\* C14, as claimed: whenever an operation of the client makes the record's
\* state terminal, update_change_order called directly included, that operation
\* leaves closed_time non-null.
C14_TerminalTransitionStamps ==
    [][(co.state \notin TerminalStates /\ co'.state \in TerminalStates)
          => co'.closed_time # 0]_vars

\* C14, amended: whenever close_change_order or close_change_order_with_error
\* makes the record's state terminal, that call has stamped a non-null
\* closed_time (and saved it); update_change_order called directly leaves
\* closed_time as it was, also when it makes the state terminal.
C14_CloseStampsUpdateDoesNot ==
    [][/\ (call'.op \in CloseOps /\ co'.state \in TerminalStates
                                  /\ call'.outcome = "returned") =>
              /\ co'.closed_time # 0
              /\ db_row'.closed_time = co'.closed_time
       /\ call'.op = "update" => co'.closed_time = co.closed_time]_vars

\* A close that made the record COMPLETE, with its closed_time saved.
C14_Witness ==
    /\ call.op = "close"
    /\ call.outcome = "returned"
    /\ co.state = TICKET_STATE_COMPLETE
    /\ co.closed_time # 0
    /\ db_row.closed_time = co.closed_time

\* C15, as claimed, for a record as it is persisted: a record whose closed_time
\* is non-null has state COMPLETE or COMPLETE_WITH_ERRORS.
C15_ClosedTimeImpliesTerminal ==
    (co.closed_time # 0 /\ db_row = co) => co.state \in TerminalStates

\* C15, amended: closed_time is set only by close_change_order and
\* close_change_order_with_error, the calls that ask the remote system for a
\* terminal state; no other operation changes it.  (The state of a record with
\* a non-null closed_time is whatever the remote system last answered.)
C15_ClosedTimeSetOnlyByClose ==
    [][co'.closed_time # co.closed_time =>
          /\ call'.op \in CloseOps
          /\ co'.closed_time # 0
          /\ call'.request.state \in TerminalStates]_vars

\* A record with a saved closed_time whose state is not terminal.
C15_Witness ==
    /\ call.op \in CloseOps
    /\ call.outcome = "returned"
    /\ co.closed_time # 0
    /\ db_row = co
    /\ co.state = "new"

\* C17: the record's sys_id and number, given by the remote create response,
\* are left as they are by every update_change_order, close_change_order and
\* close_change_order_with_error, failed or not, whatever the response holds.
C17_IdentityNeverChanges ==
    [][/\ co'.sys_id = co.sys_id
       /\ co'.number = co.number
       /\ db_row'.sys_id = db_row.sys_id
       /\ db_row'.number = db_row.number
       /\ call'.query = co.sys_id]_vars

\* A successful update whose response carried another sys_id and number.
C17_Witness ==
    /\ call.op = "update"
    /\ call.outcome = "returned"
    /\ call.remote.body.sys_id # co.sys_id
    /\ call.remote.body.number # co.number
    /\ co.title = call.remote.body.short_description

\* C19: a failed get_snow_group_guid (no match, several matches, the remote
\* call failing) leaves the cache as it was, without an entry for the name, and
\* the next resolution of that name asks the remote system again.
C19_FailedLookupLeavesCache ==
    [][/\ (ResolveStep /\ call'.outcome # "returned") =>
              /\ group_guid_dict' = group_guid_dict
              /\ call'.name \notin DOMAIN group_guid_dict'
       /\ (/\ ResolveStep
           /\ call.op = "get_guid"
           /\ call.outcome # "returned"
           /\ call'.name = call.name) => call'.lookups = 1]_vars

\* A lookup that matched several groups and left the one cached entry alone.
C19_Witness ==
    /\ call.op = "get_guid"
    /\ call.outcome = "MultipleResults"
    /\ call.name \notin DOMAIN group_guid_dict
    /\ Cardinality(DOMAIN group_guid_dict) = 1

\* C18, as claimed: create_change_order leaves the dict of its caller alone, so
\* when a caller passes the same dict (at first without an assignment_group) to
\* one create_change_order after another, every request sent carries the guid
\* of the group that call named (the configured group when it named none).
C18_OwnGroupSent ==
    (call.op = "create" /\ call.sent = 1) =>
        call.request.assignment_group \in groups[group_or_default(call.group_arg)]

\* thread t's remote lookup, if it made one, matched exactly one group
LookupSucceeded(t) ==
    threads[t].outcome \notin {"HTTPError", "NoResults", "MultipleResults"}

\* every entry of the cache is the guid of the group of that name
CacheCorrect == \A n \in DOMAIN group_guid_dict : groups[n] = {group_guid_dict[n]}

\* C11, as claimed: however a get_snow_group_guid whose lookup matches exactly
\* one group is interleaved with a clear_group_guid_cache on the shared cache,
\* the call returns the group's guid, never an error about a missing entry, and
\* the cache holds nothing or correct entries.
C11_ClearAtomicForLookups ==
    /\ \A t \in Callers :
          (threads[t].pc = "done" /\ LookupSucceeded(t)) =>
              /\ threads[t].outcome = "returned"
              /\ groups[threads[t].name] = {threads[t].ret}
    /\ CacheCorrect

\* the clearing thread has not cleared the cache
NotCleared == threads[Clearer].pc = "idle"

\* C16: when the callers resolve the same name, not cached, at the same time
\* (nothing clears the cache, the remote table stays as it is), then whatever
\* the interleaving: each caller makes at most one remote lookup (exactly one
\* when it found the name missing), the callers that return all return the one
\* guid of the group, every caller whose lookup matched returns, and the cache
\* ends with that one entry (with none if no lookup matched).
C16_RaceOnMissIsHarmless ==
    (/\ NotCleared
     /\ \A t \in Callers : threads[t].pc = "done"
     /\ \A t, u \in Callers : threads[t].name = threads[u].name) =>
        /\ \A t \in Callers :
              /\ threads[t].lookups <= 1
              /\ LookupSucceeded(t) => threads[t].outcome = "returned"
              /\ threads[t].outcome = "returned" =>
                    groups[threads[t].name] = {threads[t].ret}
        /\ \A t, u \in Callers :
              (threads[t].outcome = "returned" /\ threads[u].outcome = "returned")
                  => threads[t].ret = threads[u].ret
        /\ IF \E t \in Callers : threads[t].outcome = "returned"
           THEN \E t \in Callers :
                    group_guid_dict = (threads[t].name :> threads[t].ret)
           ELSE group_guid_dict = <<>>

\* Two callers both missed "n1", both looked it up, both returned g1, and the
\* cache holds the one entry.
C16_Witness ==
    /\ NotCleared
    /\ \A t \in Callers :
          /\ threads[t].pc = "done"
          /\ threads[t].name = "n1"
          /\ threads[t].lookups = 1
          /\ threads[t].outcome = "returned"
          /\ threads[t].ret = "g1"
    /\ group_guid_dict = ("n1" :> "g1")

====
